---------------------------- MODULE Spec2Model ----------------------------
(***************************************************************************)
(* A model of validator.go: the rule registry, the type-handler registry,  *)
(* the ValidationContext chaining protocol, the built-in rules and the     *)
(* ValidateStruct entry point, in both lifecycle variants (the             *)
(* instantiable Validator of lines 1-255 and the package-level singleton   *)
(* of lines 257-476).                                                      *)
(***************************************************************************)
EXTENDS Integers, Sequences, FiniteSets, TLC

(***************************************************************************)
(* Bounds of the model.                                                    *)
(***************************************************************************)
MaxOps == 3
MaxConcOps == 2
MaxEmailLen == 4
MaxParams == 2
MaxCmpParams == 3

(***************************************************************************)
(* Go values passed as `any`.  A value carries its reflect.Kind, whether   *)
(* its dynamic type is a named (defined) type rather than the predeclared  *)
(* one, its characters when it is a string, its element count when it is   *)
(* an array, slice or map, and its number when it is numeric.  A number is *)
(* nan, or big * 2^53 + off: float64 has 53 bits of mantissa, so integers  *)
(* at or above 2^53 are where float64(rv.Int()) stops being exact.         *)
(***************************************************************************)
Num(nan, big, off) == [nan |-> nan, big |-> big, off |-> off]
F0 == Num(FALSE, FALSE, 0)
NaN == Num(TRUE, FALSE, 0)

Val(kind, named, str, len, num) ==
    [kind |-> kind, named |-> named, str |-> str, len |-> len, num |-> num]
StrV(s) == Val("string", FALSE, s, Len(s), F0)
NamedStrV(s) == Val("string", TRUE, s, Len(s), F0)
SliceV(n) == Val("slice", FALSE, <<>>, n, F0)
ArrayV(n) == Val("array", FALSE, <<>>, n, F0)
MapV(n) == Val("map", FALSE, <<>>, n, F0)
IntV(i) == Val("int", FALSE, <<>>, 0, Num(FALSE, FALSE, i))
BigIntV(d) == Val("int", FALSE, <<>>, 0, Num(FALSE, TRUE, d))
UintV(i) == Val("uint", FALSE, <<>>, 0, Num(FALSE, FALSE, i))
FloatV(f) == Val("float", FALSE, <<>>, 0, f)
BoolV == Val("bool", FALSE, <<>>, 0, F0)
NilValue == Val("invalid", FALSE, <<>>, 0, F0)

(***************************************************************************)
(* float64 arithmetic as the rules use it.                                 *)
(***************************************************************************)
\* round-to-nearest, ties-to-even, of 2^53 + off onto the float64 grid,
\* whose spacing is 2 in [2^53, 2^54)
RoundHalfEven(off) ==
    LET q == off \div 2
    IN  IF off % 2 = 0 THEN off
        ELSE IF q % 2 = 0 THEN 2 * q ELSE 2 * (q + 1)

\* float64(rv.Int()), float64(rv.Uint())
ToFloat64(n) == IF n.big THEN Num(FALSE, TRUE, RoundHalfEven(n.off)) ELSE n

\* the order of two numbers that are not nan
OrdLe(a, b) == IF a.big = b.big THEN a.off <= b.off ELSE b.big

\* Go's a <= b and a >= b on float64: false when either side is NaN
FLe(a, b) == ~a.nan /\ ~b.nan /\ OrdLe(a, b)
FGe(a, b) == ~a.nan /\ ~b.nan /\ OrdLe(b, a)

(***************************************************************************)
(* Errors.  A nil error is NoErr.  A non-nil error is its text: msg is the *)
(* literal text or the format, and pos, val, cmp, typ are the values the   *)
(* format prints (%d, %v, %v, %T).                                         *)
(***************************************************************************)
NoErr == [nil |-> TRUE, msg |-> "", pos |-> 0, val |-> F0, cmp |-> F0, typ |-> ""]
Errorf(msg, pos, val, cmp, typ) ==
    [nil |-> FALSE, msg |-> msg, pos |-> pos, val |-> val, cmp |-> cmp, typ |-> typ]
ErrorsNew(text) == Errorf(text, 0, F0, F0, "")

\* what a call of a rule function ends in: it returns an error (nil or not),
\* or it panics
Returns(e) == [panic |-> FALSE, err |-> e]
Panics == [panic |-> TRUE, err |-> NoErr]

(***************************************************************************)
(* strings.TrimSpace and the length notEmpty computes.                     *)
(***************************************************************************)
IsSpace(c) == c \in {" ", "\t", "\n"}

RECURSIVE TrimLeft(_)
TrimLeft(s) ==
    IF s # <<>> /\ IsSpace(Head(s)) THEN TrimLeft(Tail(s)) ELSE s

RECURSIVE TrimRight(_)
TrimRight(s) ==
    IF s # <<>> /\ IsSpace(s[Len(s)])
    THEN TrimRight(SubSeq(s, 1, Len(s) - 1))
    ELSE s

TrimSpace(s) == TrimRight(TrimLeft(s))

(***************************************************************************)
(* notEmpty as New() installs it (lines 68-89).  p.(string) at line 80 is  *)
(* a plain type assertion: on a value of Kind String whose dynamic type is *)
(* not string itself it panics.                                            *)
(***************************************************************************)
RECURSIVE NotEmptyNew(_)
NotEmptyNew(param) ==
    IF param = <<>> THEN Returns(NoErr)
    ELSE LET p == Head(param)
         IN  IF p.kind = "string" /\ p.named THEN Panics
             ELSE LET length ==
                          IF p.kind \in {"array", "slice", "map"} THEN p.len
                          ELSE IF p.kind = "string" THEN Len(TrimSpace(p.str))
                          ELSE 0
                  IN  IF length = 0
                      THEN Returns(ErrorsNew("required rule failed"))
                      ELSE NotEmptyNew(Tail(param))

(***************************************************************************)
(* notEmpty as Init() installs it (lines 347-360): an operand that is not  *)
(* of type string is skipped.                                              *)
(***************************************************************************)
RECURSIVE NotEmptyInit(_)
NotEmptyInit(param) ==
    IF param = <<>> THEN Returns(NoErr)
    ELSE LET p == Head(param)
             ok == p.kind = "string" /\ ~p.named
         IN  IF ok /\ Len(TrimSpace(p.str)) = 0
             THEN Returns(ErrorsNew("rule required failed"))
             ELSE NotEmptyInit(Tail(param))

(***************************************************************************)
(* greaterThan and lessThan (lines 91-203 and 362-474; the two copies are  *)
(* the same text).                                                         *)
(***************************************************************************)
\* the kinds the switch on the comparer accepts
GtComparerKinds == {"string", "array", "slice", "map", "int", "uint", "float"}
LtComparerKinds == {"string", "array", "slice", "int", "uint", "float"}
\* the kinds the switch on a compared operand accepts
OperandKinds == {"string", "array", "slice", "int", "uint", "float"}

\* the float64 a value of an accepted kind is reduced to
Reduce(v) ==
    IF v.kind = "string" THEN Num(FALSE, FALSE, Len(v.str))
    ELSE IF v.kind \in {"array", "slice", "map"} THEN Num(FALSE, FALSE, v.len)
    ELSE IF v.kind \in {"int", "uint"} THEN ToFloat64(v.num)
    ELSE v.num

\* the loop over params[1:], from index i (0-based) on
RECURSIVE GtLoop(_, _, _)
GtLoop(comparer, rest, i) ==
    IF rest = <<>> THEN Returns(NoErr)
    ELSE LET arg == Head(rest)
         IN  IF arg.kind \notin OperandKinds
             THEN Returns(Errorf("greaterThan: unsupported type %T at position %d",
                                 i + 2, F0, F0, arg.kind))
             ELSE IF FLe(Reduce(arg), comparer)
             THEN Returns(Errorf("greaterThan: parameter at position %d (= %v) is not greater than %v",
                                 i + 2, Reduce(arg), comparer, ""))
             ELSE GtLoop(comparer, Tail(rest), i + 1)

GreaterThan(params) ==
    IF Len(params) < 2 THEN Panics
    ELSE IF params[1].kind \notin GtComparerKinds
    THEN Returns(Errorf("greaterThan: unsupported type %T for comparer",
                        0, F0, F0, params[1].kind))
    ELSE GtLoop(Reduce(params[1]), Tail(params), 0)

RECURSIVE LtLoop(_, _, _)
LtLoop(comparer, rest, i) ==
    IF rest = <<>> THEN Returns(NoErr)
    ELSE LET arg == Head(rest)
         IN  IF arg.kind \notin OperandKinds
             THEN Returns(Errorf("lessThan: unsupported type %T at position %d",
                                 i + 2, F0, F0, arg.kind))
             ELSE IF FGe(Reduce(arg), comparer)
             THEN Returns(Errorf("lessThan: parameter at position %d (= %v) is not less than %v",
                                 i + 2, Reduce(arg), comparer, ""))
             ELSE LtLoop(comparer, Tail(rest), i + 1)

LessThan(params) ==
    IF Len(params) < 2 THEN Panics
    ELSE IF params[1].kind \notin LtComparerKinds
    THEN Returns(Errorf("lessThan: unsupported type %T for comparer",
                        0, F0, F0, params[1].kind))
    ELSE LtLoop(Reduce(params[1]), Tail(params), 0)

(***************************************************************************)
(* isEmail (lines 205-252): one left-to-right scan setting six flags.      *)
(***************************************************************************)
EmailFlags0 ==
    [ampIsThere |-> FALSE, spacesThere |-> FALSE, textBeforeAmp |-> FALSE,
     textAfterAmp |-> FALSE, dotAfterAmp |-> FALSE, otherError |-> FALSE]

\* the body of the loop for one rune r
EmailScanStep(f, r) ==
    LET g == IF r = "@"
             THEN [f EXCEPT !.otherError = f.otherError \/ f.ampIsThere,
                            !.ampIsThere = TRUE]
             ELSE IF ~f.ampIsThere THEN [f EXCEPT !.textBeforeAmp = TRUE]
             ELSE IF r = "." THEN [f EXCEPT !.dotAfterAmp = TRUE]
             ELSE [f EXCEPT !.textAfterAmp = TRUE]
    IN  IF r = " " \/ r = "," THEN [g EXCEPT !.spacesThere = TRUE] ELSE g

RECURSIVE EmailScan(_, _)
EmailScan(f, s) ==
    IF s = <<>> THEN f ELSE EmailScan(EmailScanStep(f, Head(s)), Tail(s))

IsEmail(param) ==
    IF Len(param) = 0 THEN Panics
    ELSE IF ~(param[1].kind = "string" /\ ~param[1].named) THEN Panics
    ELSE LET f == EmailScan(EmailFlags0, param[1].str)
         IN  IF f.spacesThere \/ ~f.ampIsThere \/ ~f.textAfterAmp
                \/ ~f.textBeforeAmp \/ ~f.dotAfterAmp \/ f.otherError
             THEN Returns(ErrorsNew("Email addresses must be valid, working, and must have no commas or spaces"))
             ELSE Returns(NoErr)

(***************************************************************************)
(* Rule functions as values: notEmptyNew, notEmptyInit, greaterThan,       *)
(* lessThan and isEmail are the built-in ones, named after the rule and    *)
(* the setup routine that holds their text; userPass and userFail are rule *)
(* functions a caller registers.                                           *)
(***************************************************************************)
UserRuleFns == {"userPass", "userFail"}

\* rule(params), lines 49 and 320
ApplyRule(fn, params) ==
    CASE fn = "notEmptyNew" -> NotEmptyNew(params)
      [] fn = "notEmptyInit" -> NotEmptyInit(params)
      [] fn = "greaterThan" -> GreaterThan(params)
      [] fn = "lessThan" -> LessThan(params)
      [] fn = "isEmail" -> IsEmail(params)
      [] fn = "userPass" -> Returns(NoErr)
      [] OTHER -> Returns(ErrorsNew("custom rule failed"))

(***************************************************************************)
(* The registries.  A table is a function from its keys to what is bound   *)
(* to them.                                                                *)
(***************************************************************************)
EmptyTable == [k \in {} |-> ""]

\* m[k] = v on a map that was made
MapSet(m, k, v) == [x \in DOMAIN m \cup {k} |-> IF x = k THEN v ELSE m[x]]

\* singleton RegisterRule, lines 287-289
RegisterRule(tbl, ruleName, fnc) == MapSet(tbl, ruleName, fnc)

\* singleton RegisterType, lines 291-295
RegisterType(tbl, typ, handler) == MapSet(tbl, typ, handler)

\* Init(), lines 346-476: three RegisterRule calls
InitBody(tbl) ==
    RegisterRule(RegisterRule(RegisterRule(tbl, "notEmpty", "notEmptyInit"),
                              "greaterThan", "greaterThan"),
                 "lessThan", "lessThan")

(***************************************************************************)
(* The instantiable Validator.  Its two maps are nil until something makes *)
(* them; an assignment to an entry of a nil map panics.                    *)
(***************************************************************************)
\* &Validator{}, line 67
ZeroValidator ==
    [rulesNil |-> TRUE, rules |-> EmptyTable,
     handlersNil |-> TRUE, typeHandlers |-> EmptyTable]

\* RegisterRule(v, ruleName, fnc), lines 21-23
RegisterRuleV(v, ruleName, fnc) ==
    IF v.rulesNil THEN [panic |-> TRUE, v |-> v]
    ELSE [panic |-> FALSE, v |-> [v EXCEPT !.rules = MapSet(v.rules, ruleName, fnc)]]

\* RegisterType[T](v, handler), lines 25-29
RegisterTypeV(v, typ, handler) ==
    IF v.handlersNil THEN [panic |-> TRUE, v |-> v]
    ELSE [panic |-> FALSE,
          v |-> [v EXCEPT !.typeHandlers = MapSet(v.typeHandlers, typ, handler)]]

\* the RegisterRule calls of New() in their order, lines 68, 91, 148, 205
NewRegistrations ==
    << <<"notEmpty", "notEmptyNew">>, <<"greaterThan", "greaterThan">>,
       <<"lessThan", "lessThan">>, <<"isEmail", "isEmail">> >>

\* the calls regs made one after the other on v; a panic ends the sequence
RECURSIVE RegisterAllV(_, _)
RegisterAllV(v, regs) ==
    IF regs = <<>> THEN [panic |-> FALSE, v |-> v]
    ELSE LET r == RegisterRuleV(v, Head(regs)[1], Head(regs)[2])
         IN  IF r.panic THEN r ELSE RegisterAllV(r.v, Tail(regs))

\* New(), lines 66-255
NewBody == RegisterAllV(ZeroValidator, NewRegistrations)

(***************************************************************************)
(* The ValidationContext methods, as functions of the stored error.  Each  *)
(* yields the stored error after the call, whether the call panicked, and  *)
(* in fn what it resolved and invoked: a rule function, "pred" for the     *)
(* function given to Must or MustErr, "none" when nothing was invoked.     *)
(***************************************************************************)
Outcome(panic, err, fn) == [panic |-> panic, err |-> err, fn |-> fn]

\* Message without its test of the stored error
MessageStepUnguarded(err, message) == Outcome(FALSE, ErrorsNew(message), "none")

\* Message, lines 31-37 and 301-307
MessageStep(err, message) ==
    IF ~err.nil THEN Outcome(FALSE, ErrorsNew(message), "none")
    ELSE Outcome(FALSE, err, "none")

\* Check without its early return on a stored error
CheckStepUnguarded(err, tbl, handlerName, params) ==
    IF handlerName \notin DOMAIN tbl THEN Outcome(TRUE, err, "none")
    ELSE LET r == ApplyRule(tbl[handlerName], params)
         IN  IF r.panic THEN Outcome(TRUE, err, tbl[handlerName])
             ELSE Outcome(FALSE, r.err, tbl[handlerName])

\* Check recovering a panic into a stored error
CheckStepRecovering(err, tbl, handlerName, params) ==
    IF ~err.nil THEN Outcome(FALSE, err, "none")
    ELSE IF handlerName \notin DOMAIN tbl
    THEN Outcome(FALSE, ErrorsNew("rule has not been registered"), "none")
    ELSE LET r == ApplyRule(tbl[handlerName], params)
         IN  IF r.panic
             THEN Outcome(FALSE, ErrorsNew("rule panicked"), tbl[handlerName])
             ELSE Outcome(FALSE, r.err, tbl[handlerName])

\* singleton Check, lines 309-323
CheckStep(err, tbl, handlerName, params) ==
    IF ~err.nil THEN Outcome(FALSE, err, "none")
    ELSE IF handlerName \notin DOMAIN tbl THEN Outcome(TRUE, err, "none")
    ELSE LET r == ApplyRule(tbl[handlerName], params)
         IN  IF r.panic THEN Outcome(TRUE, err, tbl[handlerName])
             ELSE Outcome(FALSE, r.err, tbl[handlerName])

\* instantiable Check, lines 39-52: ctx.validator is a pointer, nil in a
\* context made outside the package; v.made says it is not nil
CheckStepV(err, v, handlerName, params) ==
    IF ~err.nil THEN Outcome(FALSE, err, "none")
    ELSE IF ~v.made THEN Outcome(TRUE, err, "none")
    ELSE IF handlerName \notin DOMAIN v.obj.rules THEN Outcome(TRUE, err, "none")
    ELSE LET r == ApplyRule(v.obj.rules[handlerName], params)
         IN  IF r.panic THEN Outcome(TRUE, err, v.obj.rules[handlerName])
             ELSE Outcome(FALSE, r.err, v.obj.rules[handlerName])

\* MustErr without its early return on a stored error
MustErrStepUnguarded(err, e) == Outcome(FALSE, e, "pred")

\* MustErr, lines 325-332; e is what fnc() returns
MustErrStep(err, e) ==
    IF ~err.nil THEN Outcome(FALSE, err, "none")
    ELSE Outcome(FALSE, e, "pred")

\* Must, lines 54-64 and 334-344; b is what fnc() returns
MustStep(err, b) ==
    IF ~err.nil THEN Outcome(FALSE, err, "none")
    ELSE IF ~b THEN Outcome(FALSE, ErrorsNew("rule failed"), "pred")
    ELSE Outcome(FALSE, err, "pred")

(***************************************************************************)
(* The calls a handler makes on its context.                               *)
(***************************************************************************)
Op(op, name, params, b, e, text) ==
    [op |-> op, name |-> name, params |-> params, b |-> b, e |-> e, text |-> text]
NoOp == Op("none", "", <<>>, TRUE, NoErr, "")
CheckOp(name, params) == Op("Check", name, params, TRUE, NoErr, "")
MustOp(b) == Op("Must", "", <<>>, b, NoErr, "")
MustErrOp(e) == Op("MustErr", "", <<>>, TRUE, e, "")
MessageOp(text) == Op("Message", "", <<>>, TRUE, NoErr, text)

\* the validator of a ValidationContext made outside the package: the field
\* is unexported, so it is the nil pointer
NilCtxValidator == [made |-> FALSE, obj |-> ZeroValidator]

\* one call on a context whose stored error is err; variant tells the
\* singleton methods (lines 301-344) from the instantiable ones (lines 31-64)
Exec(err, variant, tbl, op) ==
    CASE op.op = "Check" ->
             IF variant = "singleton"
             THEN CheckStep(err, tbl, op.name, op.params)
             ELSE CheckStepV(err, NilCtxValidator, op.name, op.params)
      [] op.op = "Must" -> MustStep(err, op.b)
      [] op.op = "MustErr" -> MustErrStep(err, op.e)
      [] OTHER -> MessageStep(err, op.text)

(***************************************************************************)
(* State.                                                                  *)
(***************************************************************************)
VARIABLES
    rules,          \* the singleton rule table (line 284)
    typeHandlers,   \* the singleton type-handler table (line 285)
    initDone,       \* Init() has returned
    inst,           \* the instantiable Validator the caller holds, if any
    latest,         \* history: what was last registered under each key
    calls,          \* each caller's ValidateStruct call, or its own context
    ctx,            \* the stored error of each ValidationContext
    hist,           \* history of each call: its last operation and first failure
    trace,          \* history of each call: the operations it issued
    inp,            \* a rule function and the arguments it is applied to
    out             \* what that application ended in

vars == <<rules, typeHandlers, initDone, inst, latest, calls, ctx, hist, trace, inp, out>>

Procs == {"p1", "p2"}
RegTypes == {"Person", "Order"}
RuntimeTypes == RegTypes \cup {"Other"}
Handlers == {"h1", "h2"}

\* one context shared by every call
CtxShared(p) == "p1"

\* ctx := ValidationContext{} is a local of the call, line 278: the context
\* of call p is p's own
CtxOf(p) == p

IdleCall ==
    [status |-> "idle", variant |-> "singleton", typ |-> "", handler |-> "",
     nops |-> 0, result |-> NoErr]
NoMsg == [set |-> FALSE, text |-> ""]
IdleHist ==
    [lastOp |-> NoOp, preErr |-> NoErr, lastFn |-> "none", firstFail |-> NoErr,
     msgAfter |-> NoMsg, lateInvoke |-> FALSE,
     rules0 |-> EmptyTable, handlers0 |-> EmptyTable]
NoInput == [rule |-> "none", params |-> <<>>]
NoOutput == [done |-> FALSE, panic |-> FALSE, err |-> NoErr]
NoInst == [made |-> FALSE, obj |-> ZeroValidator, newResult |-> "none", regPanic |-> FALSE]

Init ==
    /\ rules = EmptyTable
    /\ typeHandlers = EmptyTable
    /\ initDone = FALSE
    /\ inst = NoInst
    /\ latest = [rule |-> EmptyTable, typ |-> EmptyTable]
    /\ calls = [p \in Procs |-> IdleCall]
    /\ ctx = [p \in Procs |-> NoErr]
    /\ hist = [p \in Procs |-> IdleHist]
    /\ trace = [p \in Procs |-> <<>>]
    /\ inp = NoInput
    /\ out = NoOutput

AllIdle == \A p \in Procs : calls[p].status = "idle"

\* no panic has ended the program: nothing in this package recovers one
Alive ==
    /\ \A p \in Procs : calls[p].status # "panicked"
    /\ inst.newResult # "panicked"
    /\ ~inst.regPanic

(***************************************************************************)
(* Setup: registration in the singleton.                                   *)
(***************************************************************************)
InitAct ==
    /\ Alive
    /\ AllIdle
    /\ rules' = InitBody(rules)
    /\ initDone' = TRUE
    /\ latest' = [latest EXCEPT !.rule =
                      MapSet(MapSet(MapSet(@, "notEmpty", "notEmptyInit"),
                                    "greaterThan", "greaterThan"),
                             "lessThan", "lessThan")]
    /\ UNCHANGED <<typeHandlers, inst, calls, ctx, hist, trace, inp, out>>

RegisterRuleAct(ruleName, fnc) ==
    /\ Alive
    /\ AllIdle
    /\ rules' = RegisterRule(rules, ruleName, fnc)
    /\ latest' = [latest EXCEPT !.rule = [x \in DOMAIN @ \cup {ruleName} |->
                                              IF x = ruleName THEN fnc ELSE @[x]]]
    /\ UNCHANGED <<typeHandlers, initDone, inst, calls, ctx, hist, trace, inp, out>>

RegisterTypeAct(typ, handler) ==
    /\ Alive
    /\ AllIdle
    /\ typeHandlers' = RegisterType(typeHandlers, typ, handler)
    /\ latest' = [latest EXCEPT !.typ = [x \in DOMAIN @ \cup {typ} |->
                                             IF x = typ THEN handler ELSE @[x]]]
    /\ UNCHANGED <<rules, initDone, inst, calls, ctx, hist, trace, inp, out>>

(***************************************************************************)
(* Setup: the instantiable Validator.                                      *)
(***************************************************************************)
\* v := New()
NewAct ==
    /\ Alive
    /\ AllIdle
    /\ inst.newResult = "none"
    /\ LET r == NewBody
       IN  inst' = IF r.panic
                   THEN [inst EXCEPT !.newResult = "panicked"]
                   ELSE [made |-> TRUE, obj |-> r.v, newResult |-> "returned",
                         regPanic |-> FALSE]
    /\ UNCHANGED <<rules, typeHandlers, initDone, latest, calls, ctx, hist, trace, inp, out>>

\* v := &Validator{}, which the exported type allows outside the package
LiteralAct ==
    /\ Alive
    /\ AllIdle
    /\ ~inst.made
    /\ inst' = [inst EXCEPT !.made = TRUE, !.obj = ZeroValidator]
    /\ UNCHANGED <<rules, typeHandlers, initDone, latest, calls, ctx, hist, trace, inp, out>>

RegisterRuleVAct(ruleName, fnc) ==
    /\ Alive
    /\ AllIdle
    /\ inst.made
    /\ LET r == RegisterRuleV(inst.obj, ruleName, fnc)
       IN  inst' = [inst EXCEPT !.obj = r.v, !.regPanic = @ \/ r.panic]
    /\ UNCHANGED <<rules, typeHandlers, initDone, latest, calls, ctx, hist, trace, inp, out>>

RegisterTypeVAct(typ, handler) ==
    /\ Alive
    /\ AllIdle
    /\ inst.made
    /\ LET r == RegisterTypeV(inst.obj, typ, handler)
       IN  inst' = [inst EXCEPT !.obj = r.v, !.regPanic = @ \/ r.panic]
    /\ UNCHANGED <<rules, typeHandlers, initDone, latest, calls, ctx, hist, trace, inp, out>>

(***************************************************************************)
(* ValidateStruct, lines 270-282, in steps: the dispatch, each call the    *)
(* handler makes on the context, and the return of ctx.err.                *)
(***************************************************************************)
StartHist == [IdleHist EXCEPT !.rules0 = rules, !.handlers0 = typeHandlers]

ValidateStart(p, typ) ==
    /\ Alive
    /\ calls[p].status = "idle"
    /\ IF typ \notin DOMAIN typeHandlers
       THEN /\ calls' = [calls EXCEPT ![p] =
                             [IdleCall EXCEPT !.status = "panicked", !.typ = typ]]
            /\ ctx' = ctx
       ELSE /\ calls' = [calls EXCEPT ![p] =
                             [IdleCall EXCEPT !.status = "running", !.typ = typ,
                                              !.handler = typeHandlers[typ]]]
            /\ ctx' = [ctx EXCEPT ![CtxOf(p)] = NoErr]
    /\ hist' = [hist EXCEPT ![p] = StartHist]
    /\ trace' = [trace EXCEPT ![p] = <<>>]
    /\ UNCHANGED <<rules, typeHandlers, initDone, inst, latest, inp, out>>

\* a caller of the instantiable variant makes a ValidationContext of its own
\* and calls its methods
ContextStart(p) ==
    /\ Alive
    /\ calls[p].status = "idle"
    /\ calls' = [calls EXCEPT ![p] =
                     [IdleCall EXCEPT !.status = "running", !.variant = "instantiable"]]
    /\ ctx' = [ctx EXCEPT ![CtxOf(p)] = NoErr]
    /\ hist' = [hist EXCEPT ![p] = StartHist]
    /\ trace' = [trace EXCEPT ![p] = <<>>]
    /\ UNCHANGED <<rules, typeHandlers, initDone, inst, latest, inp, out>>

\* the history of call p after op took the stored error from pre to o.err
HistAfter(h, op, pre, o) ==
    LET invoked == o.fn # "none"
        failedNow == invoked /\ ~o.panic /\ ~o.err.nil
    IN  [h EXCEPT
            !.lastOp = op,
            !.preErr = pre,
            !.lastFn = o.fn,
            !.firstFail = IF h.firstFail.nil /\ failedNow THEN o.err ELSE @,
            !.msgAfter = IF op.op = "Message" /\ ~h.firstFail.nil
                         THEN [set |-> TRUE, text |-> op.text] ELSE @,
            !.lateInvoke = @ \/ (invoked /\ ~h.firstFail.nil)]

\* one call of the handler on its context
HandlerOp(p, op, max, logged) ==
    /\ Alive
    /\ calls[p].status = "running"
    /\ calls[p].nops < max
    /\ calls[p].variant = "instantiable" => op.op # "MustErr"
    /\ LET pre == ctx[CtxOf(p)]
           o == Exec(pre, calls[p].variant, rules, op)
       IN  /\ ctx' = [ctx EXCEPT ![CtxOf(p)] = o.err]
           /\ calls' = [calls EXCEPT ![p].nops = @ + 1,
                                     ![p].status = IF o.panic THEN "panicked" ELSE @]
           /\ hist' = [hist EXCEPT ![p] = HistAfter(@, op, pre, o)]
    /\ trace' = IF logged THEN [trace EXCEPT ![p] = Append(@, op)] ELSE trace
    /\ UNCHANGED <<rules, typeHandlers, initDone, inst, latest, inp, out>>

\* the handler returns, and ValidateStruct returns ctx.err (line 281)
HandlerReturn(p) ==
    /\ Alive
    /\ calls[p].status = "running"
    /\ calls' = [calls EXCEPT ![p].status = "returned",
                              ![p].result = ctx[CtxOf(p)]]
    /\ UNCHANGED <<rules, typeHandlers, initDone, inst, latest, ctx, hist, trace, inp, out>>

\* the caller has its answer and goes on
Finish(p) ==
    /\ Alive
    /\ calls[p].status = "returned"
    /\ calls' = [calls EXCEPT ![p] = IdleCall]
    /\ ctx' = [ctx EXCEPT ![CtxOf(p)] = NoErr]
    /\ hist' = [hist EXCEPT ![p] = IdleHist]
    /\ trace' = [trace EXCEPT ![p] = <<>>]
    /\ UNCHANGED <<rules, typeHandlers, initDone, inst, latest, inp, out>>

(***************************************************************************)
(* The sequential protocol: setup in both variants, then one call at a     *)
(* time, each by a handler that may issue any of SpecOps in any order.     *)
(***************************************************************************)
UserRuleNames == {"custom", "notEmpty"}

SpecOps ==
    {CheckOp("notEmpty", <<StrV(<<>>)>>),
     CheckOp("notEmpty", <<StrV(<<"A", "l">>)>>),
     CheckOp("greaterThan", <<IntV(0), IntV(5)>>),
     CheckOp("greaterThan", <<IntV(0), IntV(-1)>>),
     CheckOp("greaterThan", <<IntV(1)>>),
     CheckOp("lessThan", <<>>),
     CheckOp("isEmail", <<StrV(<<"a", "@", "b", ".", "c">>)>>),
     CheckOp("custom", <<>>),
     MustOp(TRUE), MustOp(FALSE),
     MustErrOp(NoErr), MustErrOp(ErrorsNew("must err")),
     MessageOp("name required"), MessageOp("")}

Next ==
    \/ InitAct
    \/ \E n \in UserRuleNames, f \in UserRuleFns : RegisterRuleAct(n, f)
    \/ \E t \in RegTypes, h \in Handlers : RegisterTypeAct(t, h)
    \/ NewAct
    \/ LiteralAct
    \/ \E n \in UserRuleNames, f \in UserRuleFns : RegisterRuleVAct(n, f)
    \/ \E t \in RegTypes, h \in Handlers : RegisterTypeVAct(t, h)
    \/ \E t \in RuntimeTypes : ValidateStart("p1", t)
    \/ ContextStart("p1")
    \/ \E op \in SpecOps : HandlerOp("p1", op, MaxOps, FALSE)
    \/ HandlerReturn("p1")
    \/ Finish("p1")

Spec == Init /\ [][Next]_vars

(***************************************************************************)
(* Concurrent validation under the setup-then-freeze discipline: every     *)
(* registration happens while no ValidateStruct call has started, and the  *)
(* calls of the callers in Procs then interleave step by step.             *)
(***************************************************************************)
ConcOps ==
    {CheckOp("notEmpty", <<StrV(<<>>)>>),
     CheckOp("custom", <<>>),
     MustOp(FALSE),
     MustErrOp(NoErr),
     MessageOp("name required")}

ConcNext ==
    \/ InitAct
    \/ RegisterRuleAct("custom", "userFail")
    \/ RegisterTypeAct("Person", "h1")
    \/ \E p \in Procs : ValidateStart(p, "Person")
    \/ \E p \in Procs, op \in ConcOps : HandlerOp(p, op, MaxConcOps, TRUE)
    \/ \E p \in Procs : HandlerReturn(p)

SpecConc == Init /\ [][ConcNext]_vars

(***************************************************************************)
(* The built-in rules as functions: a rule and its arguments are drawn,    *)
(* and the rule is applied to them.                                        *)
(***************************************************************************)
NotEmptyValues ==
    {StrV(<<>>), StrV(<<" ">>), StrV(<<" ", "\t", " ">>), StrV(<<"a">>),
     StrV(<<" ", "a", " ">>), NamedStrV(<<>>), NamedStrV(<<"a">>),
     SliceV(0), SliceV(1), ArrayV(0), MapV(0), MapV(1),
     IntV(0), IntV(7), BoolV, NilValue}

CmpValues ==
    {StrV(<<"a", "b">>), StrV(<<"a", "b", "c">>), SliceV(2), MapV(2),
     IntV(4), IntV(5), IntV(6), UintV(5), BigIntV(0), BigIntV(1), BigIntV(2),
     FloatV(Num(FALSE, FALSE, 5)), FloatV(NaN), BoolV}

EmailChars == {"a", "b", "c", "@", ".", " ", ","}
EmailExamples ==
    {<<"a", "@", "b", ".", "c">>, <<"a", " ", "@", "b", ".", "c">>,
     <<"a", "@", "b", "@", "c", ".", "a">>}
\* arguments isEmail is not meant for
EmailMisuse == {<<>>, <<IntV(5)>>, <<NamedStrV(<<"a", "@", "b", ".", "c">>)>>}

RuleInput(rule, params) == [rule |-> rule, params |-> params]

RulesInit ==
    /\ rules = EmptyTable
    /\ typeHandlers = EmptyTable
    /\ initDone = FALSE
    /\ inst = NoInst
    /\ latest = [rule |-> EmptyTable, typ |-> EmptyTable]
    /\ calls = [p \in Procs |-> IdleCall]
    /\ ctx = [p \in Procs |-> NoErr]
    /\ hist = [p \in Procs |-> IdleHist]
    /\ trace = [p \in Procs |-> <<>>]
    /\ \/ \E r \in {"notEmptyNew", "notEmptyInit"}, k \in 0..MaxParams :
              \E ps \in [1..k -> NotEmptyValues] : inp = RuleInput(r, ps)
       \/ \E r \in {"greaterThan", "lessThan"}, k \in 0..MaxCmpParams :
              \E ps \in [1..k -> CmpValues] : inp = RuleInput(r, ps)
       \/ \E k \in 0..MaxEmailLen :
              \E s \in [1..k -> EmailChars] : inp = RuleInput("isEmail", <<StrV(s)>>)
       \/ \E s \in EmailExamples : inp = RuleInput("isEmail", <<StrV(s)>>)
       \/ \E ps \in EmailMisuse : inp = RuleInput("isEmail", ps)
    /\ out = NoOutput

ApplyAct ==
    /\ ~out.done
    /\ LET r == ApplyRule(inp.rule, inp.params)
       IN  out' = [done |-> TRUE, panic |-> r.panic, err |-> r.err]
    /\ UNCHANGED <<rules, typeHandlers, initDone, inst, latest, calls, ctx, hist, trace, inp>>

RulesNext == ApplyAct

SpecRules == RulesInit /\ [][RulesNext]_vars

(***************************************************************************)
(* Properties of the context protocol (specification Spec).                *)
(***************************************************************************)
Failed(e) == ~e.nil
GuardedOps == {"Check", "Must", "MustErr"}

\* C1, as amended: once a context is Failed, a further Check, Must or
\* MustErr call, with any arguments, leaves the stored error the very error
\* it was before the call and does not panic; a further Message call leaves
\* the context Failed.  So the stored error is the error of the first
\* failure, or carries the text of the last Message call made since.
C1_FailedAbsorbsChecks ==
    \A p \in Procs :
        LET h == hist[p]
            e == ctx[CtxOf(p)]
        IN  /\ (Failed(h.preErr) /\ h.lastOp.op \in GuardedOps)
                   => (e = h.preErr /\ calls[p].status # "panicked")
            /\ (Failed(h.preErr) /\ h.lastOp.op = "Message") => Failed(e)
            /\ Failed(h.firstFail)
                   => e = IF h.msgAfter.set THEN ErrorsNew(h.msgAfter.text)
                          ELSE h.firstFail

\* C1 witness: MustErr was called on a Failed context with a function that
\* returns another error than the stored one
C1_Witness ==
    \E p \in Procs :
        /\ Failed(hist[p].preErr)
        /\ hist[p].lastOp.op = "MustErr"
        /\ Failed(hist[p].lastOp.e)
        /\ hist[p].lastOp.e # hist[p].preErr

\* C1 as stated: once a context is Failed, every further Check, Must,
\* MustErr or Message call leaves the stored error unchanged
C1_Original ==
    \A p \in Procs :
        (Failed(hist[p].preErr) /\ hist[p].lastOp.op # "none")
            => ctx[CtxOf(p)] = hist[p].preErr

\* what ValidateStruct is to return given the history of the call
Expected(h) ==
    IF h.firstFail.nil THEN NoErr
    ELSE IF h.msgAfter.set THEN ErrorsNew(h.msgAfter.text)
    ELSE h.firstFail

\* C2: ValidateStruct returns nil if no call of the handler fails, and
\* otherwise the error of the first failing call, with the text of the last
\* Message call after it if there is one; nothing is resolved or invoked
\* after the first failing call.
C2_FirstFailureReturned ==
    \A p \in Procs :
        calls[p].variant = "singleton" =>
            /\ ~hist[p].lateInvoke
            /\ calls[p].status = "returned" => calls[p].result = Expected(hist[p])

\* C2 witness: a call returned after a failing call, a Message call and a
\* later Check call that found the context Failed
C2_Witness ==
    \E p \in Procs :
        /\ calls[p].variant = "singleton"
        /\ calls[p].status = "returned"
        /\ Failed(hist[p].firstFail)
        /\ hist[p].msgAfter.set
        /\ hist[p].lastOp.op = "Check"
        /\ hist[p].lastOp.name \in DOMAIN rules

\* C3: Message on an OK context leaves it OK; on a Failed context it makes
\* the stored error the error whose text is exactly its argument, the empty
\* text included, and the context stays Failed.
C3_MessageKeepsState ==
    \A p \in Procs :
        hist[p].lastOp.op = "Message" =>
            /\ calls[p].status # "panicked"
            /\ hist[p].preErr.nil => ctx[CtxOf(p)] = NoErr
            /\ Failed(hist[p].preErr)
                   => /\ ctx[CtxOf(p)] = ErrorsNew(hist[p].lastOp.text)
                      /\ Failed(ctx[CtxOf(p)])

\* C3 witness: Message("") was called on a Failed context
C3_Witness ==
    \E p \in Procs :
        /\ hist[p].lastOp = MessageOp("")
        /\ Failed(hist[p].preErr)
        /\ hist[p].preErr # ErrorsNew("")

\* the last call of p was a Check on an OK context that broke the contract:
\* its rule is not registered, or it is greaterThan or lessThan with fewer
\* than 2 arguments
ContractViolation(p) ==
    /\ hist[p].lastOp.op = "Check"
    /\ hist[p].preErr.nil
    /\ \/ hist[p].lastOp.name \notin DOMAIN rules
       \/ /\ rules[hist[p].lastOp.name] \in {"greaterThan", "lessThan"}
          /\ Len(hist[p].lastOp.params) < 2

\* C6: a ValidateStruct call on a value whose type has no handler, or whose
\* handler breaks the contract of Check, ends in a panic: it does not
\* return, and the stored error is not set.
C6_ViolationsPanic ==
    \A p \in Procs :
        calls[p].variant = "singleton" =>
            /\ (calls[p].status # "idle" /\ calls[p].typ \notin DOMAIN typeHandlers)
                   => /\ calls[p].status = "panicked"
                      /\ calls[p].nops = 0
                      /\ ctx[CtxOf(p)].nil
            /\ ContractViolation(p)
                   => /\ calls[p].status = "panicked"
                      /\ ctx[CtxOf(p)].nil
                      /\ calls[p].result.nil

\* C6 witness: a handler called greaterThan with one argument on an OK
\* context, with greaterThan registered
C6_Witness ==
    \E p \in Procs :
        /\ calls[p].variant = "singleton"
        /\ hist[p].lastOp = CheckOp("greaterThan", <<IntV(1)>>)
        /\ hist[p].preErr.nil
        /\ "greaterThan" \in DOMAIN rules
        /\ calls[p].status = "panicked"

(***************************************************************************)
(* Properties of the registries (specification Spec).                      *)
(***************************************************************************)
Builtins == {"notEmpty", "greaterThan", "lessThan", "isEmail"}

\* C4 as stated: in both variants every registration succeeds without a
\* panic, and each key resolves to the function most recently registered
\* under it: in the tables, in the rule a Check call invokes and in the
\* handler ValidateStruct dispatches to.
C4_ResolveLatest ==
    /\ DOMAIN rules = DOMAIN latest.rule
    /\ \A k \in DOMAIN latest.rule : rules[k] = latest.rule[k]
    /\ DOMAIN typeHandlers = DOMAIN latest.typ
    /\ \A t \in DOMAIN latest.typ : typeHandlers[t] = latest.typ[t]
    /\ \A p \in Procs :
           /\ (calls[p].variant = "singleton" /\ calls[p].status \in {"running", "returned"})
                  => calls[p].handler = latest.typ[calls[p].typ]
           /\ (calls[p].variant = "singleton" /\ hist[p].lastOp.op = "Check"
                   /\ hist[p].lastFn # "none")
                  => hist[p].lastFn = latest.rule[hist[p].lastOp.name]
    /\ inst.newResult # "panicked"
    /\ ~inst.regPanic

\* C5 as stated: New() returns a Validator in whose rule table the four
\* built-in names resolve, and after Init() the four names resolve in the
\* singleton rule table.
C5_BuiltinsInstalled ==
    /\ inst.newResult # "none"
           => /\ inst.newResult = "returned"
              /\ Builtins \subseteq DOMAIN inst.obj.rules
    /\ initDone => Builtins \subseteq DOMAIN rules

(***************************************************************************)
(* Concurrent validation (specification SpecConc).                         *)
(***************************************************************************)
\* what a handler issuing ops ends in when its call is the only one
RECURSIVE RunFrom(_, _, _)
RunFrom(err, ops, tbl) ==
    IF ops = <<>> THEN [panic |-> FALSE, err |-> err]
    ELSE LET o == Exec(err, "singleton", tbl, Head(ops))
         IN  IF o.panic THEN [panic |-> TRUE, err |-> o.err]
             ELSE RunFrom(o.err, Tail(ops), tbl)

RunAlone(ops, tbl) == RunFrom(NoErr, ops, tbl)

Active(p) == calls[p].status # "idle"

\* C10: with every registration made before the first ValidateStruct call
\* starts, the calls that interleave have contexts of their own, the tables
\* stay what they were when each call started, and each call is where it
\* would be, and returns what it would return, had it run alone.
C10_CallsIsolated ==
    \A p \in Procs :
        Active(p) =>
            /\ \A q \in Procs \ {p} : Active(q) => CtxOf(q) # CtxOf(p)
            /\ rules = hist[p].rules0
            /\ typeHandlers = hist[p].handlers0
            /\ calls[p].typ \in DOMAIN hist[p].handlers0 =>
                   LET alone == RunAlone(trace[p], hist[p].rules0)
                   IN  /\ ctx[CtxOf(p)] = alone.err
                       /\ (calls[p].status = "panicked") = alone.panic
                       /\ calls[p].status = "returned" => calls[p].result = alone.err

\* C10 witness: two calls have returned, each after two calls on its
\* context, one with nil and one with an error
C10_Witness ==
    \E p \in Procs, q \in Procs :
        /\ p # q
        /\ calls[p].status = "returned" /\ calls[q].status = "returned"
        /\ Len(trace[p]) = 2 /\ Len(trace[q]) = 2
        /\ calls[p].result.nil
        /\ Failed(calls[q].result)

(***************************************************************************)
(* Properties of the built-in rules (specification SpecRules).             *)
(***************************************************************************)
PlainString(v) == v.kind = "string" /\ ~v.named

\* a well-formed address as the specification words it
WellFormedEmail(s) ==
    LET ats == {i \in 1..Len(s) : s[i] = "@"}
    IN  /\ Cardinality(ats) = 1
        /\ \A i \in ats :
               /\ i > 1
               /\ \E j \in (i + 1)..Len(s) :
                      /\ s[j] = "."
                      /\ \E k \in (j + 1)..Len(s) : s[k] # "."
        /\ \A i \in 1..Len(s) : s[i] \notin {" ", ","}

InvalidEmail ==
    ErrorsNew("Email addresses must be valid, working, and must have no commas or spaces")

\* C7 as stated: isEmail(s) yields no error exactly when s has exactly one
\* '@', a character before it, a '.' after it, a character other than '.'
\* after that '.', and no space or comma; every other string yields the one
\* invalid-email error.
C7_EmailWellFormed ==
    (out.done /\ inp.rule = "isEmail" /\ Len(inp.params) = 1
        /\ PlainString(inp.params[1]))
        => /\ ~out.panic
           /\ out.err = IF WellFormedEmail(inp.params[1].str) THEN NoErr
                        ELSE InvalidEmail

\* the operands the notEmpty examples are about
LengthBearing(v) == PlainString(v) \/ v.kind \in {"slice", "array", "map"}
EmptyOperand(v) ==
    IF v.kind = "string" THEN \A i \in 1..Len(v.str) : IsSpace(v.str[i])
    ELSE v.len = 0

\* C8 as stated: in both installed rule sets notEmpty fails when an operand
\* is an empty or whitespace-only string, an empty sequence or an empty
\* mapping, and passes when every operand is a string with a character that
\* is not whitespace or a sequence or mapping with an element.
C8_NotEmpty ==
    (out.done /\ inp.rule \in {"notEmptyNew", "notEmptyInit"}
        /\ Len(inp.params) >= 1
        /\ \A i \in 1..Len(inp.params) : LengthBearing(inp.params[i]))
        => /\ ~out.panic
           /\ out.err.nil = (\A i \in 1..Len(inp.params) : ~EmptyOperand(inp.params[i]))

\* the magnitude of an operand: its length, or its value as a float64
Magnitude(v) ==
    IF v.kind = "string" THEN Num(FALSE, FALSE, Len(v.str))
    ELSE IF v.kind \in {"slice", "array"} THEN Num(FALSE, FALSE, v.len)
    ELSE IF v.kind = "float" THEN v.num
    ELSE ToFloat64(v.num)

StrictlyGreater(a, b) == ~a.nan /\ ~b.nan /\ ~OrdLe(a, b)
StrictlyLess(a, b) == ~a.nan /\ ~b.nan /\ ~OrdLe(b, a)

Lowest(S) == CHOOSE i \in S : \A j \in S : i <= j

\* C9 as stated: with a comparer and at least one compared operand, all of
\* supported kinds, greaterThan yields no error iff every operand's
\* magnitude is strictly greater than the comparer's, lessThan iff every one
\* is strictly less; a failure is the error of the lowest operand that
\* violates the comparison, citing its position (2 for the first compared
\* operand), its magnitude and the comparer's.
C9_Comparisons ==
    (out.done /\ inp.rule \in {"greaterThan", "lessThan"}
        /\ Len(inp.params) >= 2
        /\ \A i \in 1..Len(inp.params) : inp.params[i].kind \in OperandKinds)
        => LET c == Magnitude(inp.params[1])
               x(i) == Magnitude(inp.params[i + 1])
               gt == inp.rule = "greaterThan"
               bad == {i \in 1..(Len(inp.params) - 1) :
                          IF gt THEN ~StrictlyGreater(x(i), c)
                          ELSE ~StrictlyLess(x(i), c)}
           IN  /\ ~out.panic
               /\ out.err.nil = (bad = {})
               /\ bad # {} =>
                      out.err = Errorf(IF gt
                                       THEN "greaterThan: parameter at position %d (= %v) is not greater than %v"
                                       ELSE "lessThan: parameter at position %d (= %v) is not less than %v",
                                       Lowest(bad) + 1, x(Lowest(bad)), c, "")

=============================================================================
